---------------------------- MODULE Spec2Model ----------------------------
(***************************************************************************)
(* Model of persistent_file_queue: PersistentQueue::Impl in                *)
(* src/src/persistent_queue.cpp.                                           *)
(*                                                                         *)
(* The backing file is a sequence of bytes; file offset o is file[o + 1].  *)
(* The header mapping and the data mapping of block 0 are MAP_SHARED views *)
(* of the same file pages, so header_->x is the file content at the        *)
(* offset of field x and a record written below sizeof(QueueHeader)        *)
(* overwrites header fields.                                               *)
(*                                                                         *)
(* Scale.  The geometry is scaled down so that TLC can enumerate it: a     *)
(* uint64_t header field that carries meaning takes one byte (arithmetic   *)
(* on it is modulo WORD instead of 2^64), max_size is MAX_SIZE instead of  *)
(* 1 << 30, and block sizes are a few bytes more than the header.  The     *)
(* record framing (4-byte length, payload, 1-byte checksum) is kept as in  *)
(* the source.  The two leading fields head and tail, which the source     *)
(* never reads, keep RESERVED_BYTES bytes each, so that, as in the source  *)
(* (16 bytes before capacity, frames of 5 bytes and more), a small frame   *)
(* written at file offset 0 covers only these two fields.                  *)
(*                                                                         *)
(* Undefined behaviour.  A memcpy that runs past the end of the block      *)
(* mapping its pointer was taken from is a nondeterministic choice (ub)    *)
(* between a fault that kills the process and the access landing in the    *)
(* file as if the block mappings were contiguous.  An access past the end  *)
(* of the file, through a null cache entry, or a modulo by a zero capacity *)
(* kills the process.                                                      *)
(***************************************************************************)
EXTENDS Integers, Sequences, FiniteSets, TLC

\* ------------------------------------------------------------------ bounds
\* Enqueue/Dequeue calls explored per behaviour.
MaxOps == 6

\* Calls made, over all threads, per behaviour of the concurrent
\* specification.
MaxCalls == 3

\* Enqueue/Dequeue calls made before the file is closed and changed from
\* outside.
MaxTamperOps == 4

\* Calls made per behaviour when one thread is followed statement by
\* statement.
MaxSeqCalls == 4

\* ------------------------------------------------------- program constants
WORD == 256            \* modulus of a header field (uint64_t, scaled)
MAX_SIZE == 80         \* header_->max_size = 1ULL << 30, scaled
MIN_INITIAL_BLOCKS == 4
LEN_BYTES == 4         \* sizeof(uint32_t)
CSUM_BYTES == 1        \* sizeof(std::byte)
MAGIC_NUMBER == 190    \* 0xDEADBEEFCAFEBABE, scaled to its low byte
CURRENT_VERSION == 1

\* struct QueueHeader: offset of each field.
RESERVED_BYTES == 4    \* bytes of head and of tail (uint64_t, scaled)
OFF_head == 0
OFF_tail == 4
OFF_capacity == 8
OFF_size == 9
OFF_count == 10
OFF_block_size == 11
OFF_max_size == 12
OFF_write_pos == 13
OFF_read_pos == 14
OFF_magic == 15
OFF_version == 16
OFF_checksum == 17
HEADER_BYTES == 18     \* sizeof(QueueHeader)

\* Block sizes the constructor is called with: one that divides MAX_SIZE,
\* one that does not, one larger than MAX_SIZE / 4.
BlockSizes == {20, 18, 24}

Rep(b, n) == [i \in 1..n |-> b]

\* A payload of 15 bytes whose bytes, when its frame is written at file
\* offset 0, are a header with capacity 80, size 0, count 5, block_size 20,
\* max_size 80, write_pos 0, read_pos 40, the magic number and the version.
HeaderImage == <<0, 0, 0, 0, 80, 0, 5, 20, 80, 0, 40, 190, 1, 0, 0>>

\* Payloads handed to Enqueue: two of 15 bytes (frames of 20 bytes) and the
\* empty one (a frame of 5 bytes).
Payloads == {Rep(1, 15), HeaderImage, <<>>}

UBOutcomes == {"fault", "contiguous"}

\* Threads calling into one engine, and the owner of an unlocked mutex.
Threads == {"t1", "t2"}
NoThread == "none"

VARIABLES
    file,            \* content of the backing file (sequence of bytes)
    block_size_,     \* Impl::block_size_
    engine,          \* "open", "closed" (destroyed), "failed" (constructor
                     \* threw), "crashed" (process killed)
    mapped_blocks_,  \* Impl::mapped_blocks_: block index -> "mapped" | "null"
    enqueued,        \* ghost: payloads of the Enqueue calls that returned true
    returned,        \* ghost: payloads returned by Dequeue
    last,            \* ghost: the last call and its result
    clean,           \* ghost: no call so far has thrown, killed the process
                     \* or run a memcpy past the end of a block mapping
    nops,            \* ghost: Enqueue/Dequeue calls so far
    mutex_,          \* Impl::mutex_: the thread that owns it, or NoThread
    threads,         \* per thread: where it is in its call, and its locals
    places,          \* ghost: places[k] is the file offset at which the frame
                     \* of enqueued[k] was written
    killed,          \* ghost: the call during which the process was stopped
                     \* from outside, "none" if it never was
    header_          \* Impl::header_: "mapped" while the process holds the
                     \* mapping made by MapHeaderBlock, "none" otherwise

vars == <<file, block_size_, engine, mapped_blocks_, enqueued, returned, last,
          clean, nops, mutex_, threads, places, killed, header_>>

\* ------------------------------------------------------------ byte helpers
Min(a, b) == IF a < b THEN a ELSE b
Max(a, b) == IF a > b THEN a ELSE b

RECURSIVE SumBytes(_)
SumBytes(s) == IF s = <<>> THEN 0 ELSE Head(s) + SumBytes(Tail(s))

\* One-byte additive checksum.
CalculateChecksum(data) == SumBytes(data) % 256

\* Native (little-endian) uint32_t as stored by memcpy(&data_size).
EncodeU32(n) == << n % 256, (n \div 256) % 256, (n \div 65536) % 256,
                   (n \div 16777216) % 256 >>

\* The top byte saturates at 127 to stay inside TLC's integers; every use
\* compares the value with sizes below WORD.
DecodeU32(b) == b[1] + 256 * b[2] + 65536 * b[3] + 16777216 * Min(b[4], 127)

\* header_->field on the file content f.
Field(f, off) == f[off + 1]
SetField(f, off, v) == [f EXCEPT ![off + 1] = v % WORD]

Capacity(f) == Field(f, OFF_capacity)
QSize(f)    == Field(f, OFF_size)
Count(f)    == Field(f, OFF_count)
WritePos(f) == Field(f, OFF_write_pos)
ReadPos(f)  == Field(f, OFF_read_pos)
MaxSize(f)  == Field(f, OFF_max_size)

\* ------------------------------------------------------------ mapped blocks
NoBlocks == <<>>

\* MapBlock: maps the block unless the cache has an entry for it (a null
\* entry included; ref_count is never read and is left out).
MapBlock(m, block_index) ==
    IF block_index \in DOMAIN m THEN m ELSE (block_index :> "mapped") @@ m

EnsureBlockMapped(m, block_index) == MapBlock(m, block_index)

\* mapped_blocks_[block_index] of std::map: inserts {nullptr, 0} when absent.
Subscript(m, block_index) ==
    IF block_index \in DOMAIN m THEN m ELSE (block_index :> "null") @@ m

\* FlushBlock: skips block 0; msync on a null entry fails and is ignored.
FlushBlock(m, block_index) ==
    IF block_index = 0 THEN m ELSE Subscript(m, block_index)

\* A pointer obtained by GetBlockPtr for an offset in block blk reaches the
\* file offsets below AccessLimit: none through a null entry, those of the
\* block when running past its mapping faults, those of the file when the
\* mappings happen to be contiguous.
AccessLimit(f, m, bs, blk, ub) ==
    IF blk \notin DOMAIN m THEN 0
    ELSE IF m[blk] # "mapped" THEN 0
    ELSE IF ub = "contiguous" THEN Len(f)
    ELSE Min(Len(f), (blk + 1) * bs)

\* Does a memcpy of n bytes at file offset base run past the block of base?
Overrun(bs, base, n) == n > 0 /\ base + n > (base \div bs + 1) * bs

\* memcpy(GetBlockPtr(base), bytes): [file, ok]; on a fault the bytes before
\* the faulting one have been written.
MemWrite(f, m, bs, base, bytes, ub) ==
    LET room == AccessLimit(f, m, bs, base \div bs, ub) - base
        cnt  == Min(Len(bytes), Max(0, room))
    IN  [file |-> IF cnt = 0 THEN f
                  ELSE SubSeq(f, 1, base) \o SubSeq(bytes, 1, cnt)
                       \o SubSeq(f, base + cnt + 1, Len(f)),
         ok   |-> cnt = Len(bytes)]

\* memcpy(dst, GetBlockPtr(base), n): [bytes, ok].
MemRead(f, m, bs, base, n, ub) ==
    LET ok == n = 0 \/ base + n <= AccessLimit(f, m, bs, base \div bs, ub)
    IN  [bytes |-> IF ok THEN SubSeq(f, base + 1, base + n) ELSE <<>>,
         ok    |-> ok]

\* ------------------------------------------------------------------- files
\* ftruncate: new bytes are zero.
ResizeFile(f, new_size) ==
    [k \in 1..new_size |-> IF k <= Len(f) THEN f[k] ELSE 0]

\* Initialize + InitializeNewFile on an empty file.
InitialSize(bs) == Max(MIN_INITIAL_BLOCKS, MAX_SIZE \div bs) * bs

\* A variant of InitializeNewFile that starts reading at offset 0.
InitializeNewFileReadingAtZero(f, bs, initial_size) ==
    LET h == [k \in 1..(HEADER_BYTES - 1) |->
                CASE k - 1 \in OFF_head..(OFF_head + RESERVED_BYTES - 1)
                         -> EncodeU32(bs)[k - OFF_head]
                  [] k - 1 \in OFF_tail..(OFF_tail + RESERVED_BYTES - 1)
                         -> EncodeU32(bs)[k - OFF_tail]
                  [] k - 1 = OFF_capacity   -> initial_size
                  [] k - 1 = OFF_size       -> 0
                  [] k - 1 = OFF_count      -> 0
                  [] k - 1 = OFF_block_size -> bs
                  [] k - 1 = OFF_max_size   -> MAX_SIZE
                  [] k - 1 = OFF_write_pos  -> bs
                  [] k - 1 = OFF_read_pos   -> 0
                  [] k - 1 = OFF_magic      -> MAGIC_NUMBER
                  [] k - 1 = OFF_version    -> CURRENT_VERSION]
    IN  [k \in 1..Len(f) |->
            IF k < HEADER_BYTES THEN h[k]
            ELSE IF k = HEADER_BYTES THEN CalculateChecksum(h)
            ELSE f[k]]

InitializeNewFile(f, bs, initial_size) ==
    LET h == [k \in 1..(HEADER_BYTES - 1) |->
                CASE k - 1 \in OFF_head..(OFF_head + RESERVED_BYTES - 1)
                         -> EncodeU32(bs)[k - OFF_head]
                  [] k - 1 \in OFF_tail..(OFF_tail + RESERVED_BYTES - 1)
                         -> EncodeU32(bs)[k - OFF_tail]
                  [] k - 1 = OFF_capacity   -> initial_size
                  [] k - 1 = OFF_size       -> 0
                  [] k - 1 = OFF_count      -> 0
                  [] k - 1 = OFF_block_size -> bs
                  [] k - 1 = OFF_max_size   -> MAX_SIZE
                  [] k - 1 = OFF_write_pos  -> bs
                  [] k - 1 = OFF_read_pos   -> bs
                  [] k - 1 = OFF_magic      -> MAGIC_NUMBER
                  [] k - 1 = OFF_version    -> CURRENT_VERSION]
    IN  [k \in 1..Len(f) |->
            IF k < HEADER_BYTES THEN h[k]
            ELSE IF k = HEADER_BYTES THEN CalculateChecksum(h)
            ELSE f[k]]

Initialize(bs) == InitializeNewFile(ResizeFile(<<>>, InitialSize(bs)), bs, InitialSize(bs))


\* ----------------------------------------------------------------- Enqueue
CanRecycleSpace(f, bs, required_size) ==
    IF ReadPos(f) > bs THEN TRUE
    ELSE IF WritePos(f) < ReadPos(f)
         THEN (ReadPos(f) - WritePos(f)) >= required_size
         ELSE FALSE

UpdateReadPosition(f, bs) == SetField(f, OFF_read_pos, bs)

\* new_size = min(capacity * 2, max_size); ftruncate; capacity = new_size.
\* Writing the header faults once the file no longer backs it.
ExpandNewSize(f) == Min((Capacity(f) * 2) % WORD, MaxSize(f))

ExpandFile(f) ==
    LET new_size == ExpandNewSize(f)
        g        == ResizeFile(f, new_size)
    IN  IF new_size < HEADER_BYTES
        THEN [st |-> "crash", file |-> g]
        ELSE [st |-> "go", file |-> SetField(g, OFF_capacity, new_size)]

\* Enqueue lines 135-150: the space check with growth or reclamation.
NeedsSpace(f, total_size) == (QSize(f) + total_size) % WORD > Capacity(f)

MakeRoom(f, bs, total_size) ==
    IF NeedsSpace(f, total_size)
    THEN IF Capacity(f) >= MaxSize(f)
         THEN IF CanRecycleSpace(f, bs, total_size)
              THEN [st |-> "go", file |-> UpdateReadPosition(f, bs)]
              ELSE [st |-> "full", file |-> f]
         ELSE ExpandFile(f)
    ELSE [st |-> "go", file |-> f]

Frame(data) == EncodeU32(Len(data)) \o data \o <<CalculateChecksum(data)>>

FrameSize(n) == LEN_BYTES + n + CSUM_BYTES

\* Enqueue lines 153-170: map the block of write_pos, copy the frame there,
\* flush the block.
RecordWrite(f, m, bs, data, ub) ==
    LET m1 == EnsureBlockMapped(m, WritePos(f) \div bs)
        w  == MemWrite(f, m1, bs, WritePos(f), Frame(data), ub)
    IN  [ok     |-> w.ok,
         file   |-> w.file,
         mapped |-> FlushBlock(m1, WritePos(w.file) \div bs),
         ub     |-> Overrun(bs, WritePos(f), FrameSize(Len(data)))]

\* Enqueue lines 172, 173, 174, each on the header as it then is.
StoreWritePos(f, total_size) ==
    SetField(f, OFF_write_pos, ((WritePos(f) + total_size) % WORD) % Capacity(f))
AddSize(f, total_size) == SetField(f, OFF_size, QSize(f) + total_size)
IncCount(f) == SetField(f, OFF_count, Count(f) + 1)

AdvanceWrite(f, total_size) ==
    IncCount(AddSize(StoreWritePos(f, total_size), total_size))

\* The file offset at which Enqueue writes the frame of data: write_pos after
\* the space check.
WriteOffset(f, bs, data) == WritePos(MakeRoom(f, bs, FrameSize(Len(data))).file)

\* The whole of Impl::Enqueue: [ret, file, mapped].
EnqueueCall(f, m, bs, data, ub) ==
    LET total_size == FrameSize(Len(data))
        room       == MakeRoom(f, bs, total_size)
    IN  IF room.st = "full"
        THEN [ret |-> "false", file |-> f, mapped |-> m, ub |-> FALSE]
        ELSE IF room.st = "crash"
        THEN [ret |-> "crash", file |-> room.file, mapped |-> NoBlocks, ub |-> FALSE]
        ELSE
        LET w == RecordWrite(room.file, m, bs, data, ub)
        IN  IF ~w.ok \/ Capacity(w.file) = 0
            THEN [ret |-> "crash", file |-> w.file, mapped |-> NoBlocks, ub |-> w.ub]
            ELSE [ret |-> "true", file |-> AdvanceWrite(w.file, total_size),
                  mapped |-> w.mapped, ub |-> w.ub]

\* ----------------------------------------------------------------- Dequeue
\* Dequeue lines 217, 218, 219, each on the header as it then is.
StoreReadPos(f, total_size) ==
    SetField(f, OFF_read_pos, ((ReadPos(f) + total_size) % WORD) % Capacity(f))
SubSize(f, total_size) == SetField(f, OFF_size, QSize(f) - total_size)
DecCount(f) == SetField(f, OFF_count, Count(f) - 1)

AdvanceRead(f, total_size) ==
    DecCount(SubSize(StoreReadPos(f, total_size), total_size))

\* A variant of the empty test that looks at size instead of count.
DequeueIsEmptyBySize(f) == QSize(f) = 0

\* Dequeue line 189.
DequeueIsEmpty(f) == Count(f) = 0

\* Dequeue lines 194-215: map the block of read_pos, read the length, the
\* payload and the checksum, verify the checksum: [st, mapped, data, ub] with
\* st one of "ok", "throw", "crash".
RecordRead(f, m, bs, ub) ==
    LET rp == ReadPos(f)
        m1 == EnsureBlockMapped(m, rp \div bs)
        r1 == MemRead(f, m1, bs, rp, LEN_BYTES, ub)
        data_size  == DecodeU32(r1.bytes)
        m2 == Subscript(m1, (rp + LEN_BYTES) \div bs)
        r2 == MemRead(f, m2, bs, rp + LEN_BYTES, data_size, ub)
        m3 == Subscript(m2, (rp + LEN_BYTES + data_size) \div bs)
        r3 == MemRead(f, m3, bs, rp + LEN_BYTES + data_size, CSUM_BYTES, ub)
        dead == [st |-> "crash", mapped |-> NoBlocks, data |-> <<>>, ub |-> TRUE]
        ub1  == \/ Overrun(bs, rp, LEN_BYTES)
                \/ Overrun(bs, rp + LEN_BYTES, data_size)
    IN  IF ~r1.ok THEN dead
        ELSE IF ~r2.ok THEN dead
        ELSE IF ~r3.ok THEN dead
        ELSE IF r3.bytes[1] # CalculateChecksum(r2.bytes)
        THEN [st |-> "throw", mapped |-> m3, data |-> <<>>, ub |-> ub1]
        ELSE [st |-> "ok", mapped |-> m3, data |-> r2.bytes, ub |-> ub1]

\* A variant of Dequeue that updates the header before it compares the
\* checksums.
DequeueConsumingFirst(f, m, bs, ub) ==
    IF DequeueIsEmpty(f)
    THEN [ret |-> "empty", file |-> f, mapped |-> m, data |-> <<>>, ub |-> FALSE]
    ELSE
    LET r == RecordRead(f, m, bs, ub)
    IN  IF r.st = "crash" \/ Capacity(f) = 0
        THEN [ret |-> "crash", file |-> f, mapped |-> NoBlocks, data |-> <<>>,
              ub |-> TRUE]
        ELSE IF r.st = "throw"
        THEN [ret |-> "throw",
              file |-> AdvanceRead(f, FrameSize(DecodeU32(SubSeq(f, ReadPos(f) + 1,
                                                         ReadPos(f) + LEN_BYTES)))),
              mapped |-> r.mapped, data |-> <<>>, ub |-> r.ub]
        ELSE [ret |-> "ok", file |-> AdvanceRead(f, FrameSize(Len(r.data))),
              mapped |-> r.mapped, data |-> r.data, ub |-> r.ub]

\* The whole of Impl::Dequeue: [ret, file, mapped, data].
DequeueCall(f, m, bs, ub) ==
    IF DequeueIsEmpty(f)
    THEN [ret |-> "empty", file |-> f, mapped |-> m, data |-> <<>>, ub |-> FALSE]
    ELSE
    LET r == RecordRead(f, m, bs, ub)
    IN  IF r.st = "crash" \/ (r.st = "ok" /\ Capacity(f) = 0)
        THEN [ret |-> "crash", file |-> f, mapped |-> NoBlocks, data |-> <<>>,
              ub |-> TRUE]
        ELSE IF r.st = "throw"
        THEN [ret |-> "throw", file |-> f, mapped |-> r.mapped, data |-> <<>>,
              ub |-> r.ub]
        ELSE [ret |-> "ok", file |-> AdvanceRead(f, FrameSize(Len(r.data))),
              mapped |-> r.mapped, data |-> r.data, ub |-> r.ub]

\* ---------------------------------------------------------------- recovery
\* The walk of VerifyDataIntegrity from current_pos: [st, mapped, ub] with st
\* one of "ok", "throw", "crash"; over tells whether a read so far ran past
\* its block.
RECURSIVE VerifyWalk(_, _, _, _, _, _, _)
VerifyWalk(f, m, bs, current_pos, remaining_size, ub, over) ==
    IF remaining_size = 0 THEN [st |-> "ok", mapped |-> m, ub |-> over]
    ELSE
    LET m1 == EnsureBlockMapped(m, current_pos \div bs)
        r1 == MemRead(f, m1, bs, current_pos, LEN_BYTES, ub)
        data_size  == DecodeU32(r1.bytes)
        total_size == FrameSize(data_size)
        m2 == Subscript(m1, (current_pos + LEN_BYTES + data_size) \div bs)
        r3 == MemRead(f, m2, bs, current_pos + LEN_BYTES + data_size, CSUM_BYTES, ub)
        m3 == Subscript(m2, (current_pos + LEN_BYTES) \div bs)
        r2 == MemRead(f, m3, bs, current_pos + LEN_BYTES, data_size, ub)
        dead == [st |-> "crash", mapped |-> NoBlocks, ub |-> TRUE]
        over1 == \/ over
                 \/ Overrun(bs, current_pos, LEN_BYTES)
                 \/ Overrun(bs, current_pos + LEN_BYTES, data_size)
    IN  IF ~r1.ok THEN dead
        ELSE IF total_size > remaining_size
        THEN [st |-> "throw", mapped |-> NoBlocks, ub |-> over1]
        ELSE IF ~r3.ok THEN dead
        ELSE IF ~r2.ok THEN dead
        ELSE IF r3.bytes[1] # CalculateChecksum(r2.bytes)
        THEN [st |-> "throw", mapped |-> NoBlocks, ub |-> over1]
        ELSE IF Capacity(f) = 0 THEN dead
        ELSE VerifyWalk(f, m3, bs, (current_pos + total_size) % Capacity(f),
                        remaining_size - total_size, ub, over1)

VerifyDataIntegrity(f, bs, ub) ==
    IF QSize(f) = 0 THEN [st |-> "ok", mapped |-> NoBlocks, ub |-> FALSE]
    ELSE VerifyWalk(f, NoBlocks, bs, ReadPos(f), QSize(f), ub, FALSE)

\* A header byte past the end of a short file reads as zero.
FieldZ(f, off) == IF off < Len(f) THEN f[off + 1] ELSE 0

Thrown == [st |-> "throw", mapped |-> NoBlocks, ub |-> FALSE]

\* A variant of recovery that does not compare the recorded block size.
RecoverAnyBlockSize(f, bs, ub) ==
    IF FieldZ(f, OFF_magic) # MAGIC_NUMBER THEN Thrown
    ELSE IF FieldZ(f, OFF_version) # CURRENT_VERSION THEN Thrown
    ELSE IF QSize(f) > Capacity(f) THEN Thrown
    ELSE IF ReadPos(f) >= Capacity(f) \/ WritePos(f) >= Capacity(f) THEN Thrown
    ELSE VerifyDataIntegrity(f, bs, ub)

RecoverFromFile(f, bs, ub) ==
    IF FieldZ(f, OFF_magic) # MAGIC_NUMBER THEN Thrown
    ELSE IF FieldZ(f, OFF_version) # CURRENT_VERSION THEN Thrown
    ELSE IF Field(f, OFF_block_size) # bs THEN Thrown
    ELSE IF QSize(f) > Capacity(f) THEN Thrown
    ELSE IF ReadPos(f) >= Capacity(f) \/ WritePos(f) >= Capacity(f) THEN Thrown
    ELSE VerifyDataIntegrity(f, bs, ub)

\* A variant of the constructor that starts a new queue in the file when
\* recovery throws.
ConstructResetting(f, bs, ub) ==
    IF Len(f) = 0
    THEN [st |-> "ok", file |-> Initialize(bs), mapped |-> NoBlocks, ub |-> FALSE]
    ELSE LET r == RecoverFromFile(f, bs, ub)
         IN  [st |-> r.st,
              file |-> IF r.st = "throw" THEN Initialize(bs) ELSE f,
              mapped |-> r.mapped, ub |-> r.ub]

\* Impl::Impl on the file f: [st, file, mapped].
Construct(f, bs, ub) ==
    IF Len(f) = 0
    THEN [st |-> "ok", file |-> Initialize(bs), mapped |-> NoBlocks, ub |-> FALSE]
    ELSE LET r == RecoverFromFile(f, bs, ub)
         IN  [st |-> r.st, file |-> f, mapped |-> r.mapped, ub |-> r.ub]

\* ------------------------------------------------------------------ actions
Call(op, ret, arg, data) == [op |-> op, ret |-> ret, arg |-> arg, data |-> data]

\* A thread that is in no call.
IdleThread ==
    [pc |-> "idle", op |-> "none", data |-> <<>>, ub |-> "fault", pre |-> <<>>,
     ret |-> "none", out |-> <<>>, over |-> FALSE, at |-> 0]

\* No statement of Impl unmaps header_ (the destructor unmaps the entries of
\* mapped_blocks_ only): the mapping made by MapHeaderBlock stays until the
\* process ends.
HeaderKept == header_' = IF engine' = "crashed" THEN "none" ELSE header_

\* A fresh file opened with some block size.
Init ==
    /\ block_size_ \in BlockSizes
    /\ file = Initialize(block_size_)
    /\ engine = "open"
    /\ mapped_blocks_ = NoBlocks
    /\ enqueued = <<>>
    /\ returned = <<>>
    /\ last = Call("Impl", "ok", block_size_, <<>>)
    /\ clean = TRUE
    /\ nops = 0
    /\ mutex_ = NoThread
    /\ threads = [t \in Threads |-> IdleThread]
    /\ places = <<>>
    /\ killed = "none"
    /\ header_ = "mapped"

Enqueue(data, ub) ==
    /\ engine = "open"
    /\ nops < MaxOps
    /\ LET r == EnqueueCall(file, mapped_blocks_, block_size_, data, ub)
       IN  /\ file' = r.file
           /\ mapped_blocks_' = r.mapped
           /\ engine' = IF r.ret = "crash" THEN "crashed" ELSE "open"
           /\ enqueued' = IF r.ret = "true" THEN Append(enqueued, data) ELSE enqueued
           /\ places' = IF r.ret = "true"
                         THEN Append(places, WriteOffset(file, block_size_, data))
                         ELSE places
           /\ last' = Call("Enqueue", r.ret, data, <<>>)
           /\ clean' = (clean /\ r.ret \in {"true", "false"} /\ ~r.ub)
    /\ nops' = nops + 1
    /\ UNCHANGED <<block_size_, returned, mutex_, threads, killed>>
    /\ HeaderKept

Dequeue(ub) ==
    /\ engine = "open"
    /\ nops < MaxOps
    /\ LET r == DequeueCall(file, mapped_blocks_, block_size_, ub)
       IN  /\ file' = r.file
           /\ mapped_blocks_' = r.mapped
           /\ engine' = IF r.ret = "crash" THEN "crashed" ELSE "open"
           /\ returned' = IF r.ret = "ok" THEN Append(returned, r.data) ELSE returned
           /\ last' = Call("Dequeue", r.ret, <<>>, r.data)
           /\ clean' = (clean /\ r.ret \in {"ok", "empty"} /\ ~r.ub)
    /\ nops' = nops + 1
    /\ UNCHANGED <<block_size_, enqueued, mutex_, threads, places, killed>>
    /\ HeaderKept

\* Size(), TotalBytes(), Empty(): the value returned is last.ret.
SizeRet(f) == Count(f)
TotalBytesRet(f) == QSize(f)
EmptyRet(f) == Count(f) = 0

Size ==
    /\ engine = "open"
    /\ last' = Call("Size", SizeRet(file), <<>>, <<>>)
    /\ UNCHANGED <<file, block_size_, engine, mapped_blocks_, enqueued, returned,
                   clean, nops, mutex_, threads, places, killed>>
    /\ HeaderKept

TotalBytes ==
    /\ engine = "open"
    /\ last' = Call("TotalBytes", TotalBytesRet(file), <<>>, <<>>)
    /\ UNCHANGED <<file, block_size_, engine, mapped_blocks_, enqueued, returned,
                   clean, nops, mutex_, threads, places, killed>>
    /\ HeaderKept

Empty ==
    /\ engine = "open"
    /\ last' = Call("Empty", EmptyRet(file), <<>>, <<>>)
    /\ UNCHANGED <<file, block_size_, engine, mapped_blocks_, enqueued, returned,
                   clean, nops, mutex_, threads, places, killed>>
    /\ HeaderKept

\* ~Impl: flush the header, unmap every entry of mapped_blocks_, close the
\* file.
Destroy ==
    /\ engine = "open"
    /\ engine' = "closed"
    /\ mapped_blocks_' = NoBlocks
    /\ last' = Call("~Impl", "ok", <<>>, <<>>)
    /\ UNCHANGED <<file, block_size_, enqueued, returned, clean, nops, mutex_,
                   threads, places, killed>>
    /\ HeaderKept

\* A new engine on the same file (after a close, a failed open or a crash).
Reopen(bs, ub) ==
    /\ engine \in {"closed", "failed", "crashed"}
    /\ LET r == Construct(file, bs, ub)
       IN  /\ file' = r.file
           /\ mapped_blocks_' = r.mapped
           /\ engine' = CASE r.st = "ok" -> "open"
                          [] r.st = "throw" -> "failed"
                          [] OTHER -> "crashed"
           /\ last' = Call("Impl", r.st, bs, <<>>)
           /\ clean' = (clean /\ r.st = "ok" /\ ~r.ub)
           /\ block_size_' = IF r.st = "ok" THEN bs ELSE block_size_
    /\ header_' = IF engine' = "crashed" THEN "none" ELSE "mapped"
    /\ UNCHANGED <<enqueued, returned, nops, mutex_, threads, places, killed>>

Next ==
    \/ \E data \in Payloads, ub \in UBOutcomes : Enqueue(data, ub)
    \/ \E ub \in UBOutcomes : Dequeue(ub)
    \/ Size
    \/ TotalBytes
    \/ Empty
    \/ Destroy
    \/ \E bs \in BlockSizes, ub \in UBOutcomes : Reopen(bs, ub)

Spec == Init /\ [][Next]_vars

\* ------------------------------------------------------- concurrent callers
\* Several threads call into one engine.  A call is a sequence of steps: the
\* call is made, std::scoped_lock lock(mutex_) is passed, the body touches the
\* header and the records one group of statements at a time, and the lock's
\* destructor releases the mutex on return or on a throw.  While a thread is
\* in a call, threads[t] holds its position pc, the call (op, data), the
\* outcome ub of a memcpy that leaves its block mapping, the result (ret, out)
\* and, as a ghost, the file and block cache as they were when it passed the
\* lock (pre).

Ops == {"Enqueue", "Dequeue", "Size", "TotalBytes", "Empty"}

\* A variant of the lock that does not wait for the owner.
LockNeverWaits(owner) == TRUE

\* std::scoped_lock lock(mutex_) returns once no thread owns the mutex.
LockAvailable(owner) == owner = NoThread

\* Positions between passing the lock and releasing it.
Inside ==
    {"enq_room", "enq_write", "enq_wpos", "enq_size", "enq_count",
     "deq_check", "deq_read", "deq_rpos", "deq_size", "deq_count",
     "read", "unlock"}

FirstStep(op) ==
    CASE op = "Enqueue" -> "enq_room"
      [] op = "Dequeue" -> "deq_check"
      [] OTHER -> "read"

At(t, pc) == engine = "open" /\ threads[t].pc = pc

Goto(t, pc) == threads' = [threads EXCEPT ![t].pc = pc]

\* The process is killed: no thread takes another step.
Die(t) ==
    /\ engine' = "crashed"
    /\ mapped_blocks_' = NoBlocks
    /\ clean' = FALSE
    /\ threads' = [threads EXCEPT ![t].pc = "dead", ![t].ret = "crash"]

\* The call is made (lines 129, 186: the log line before the lock).
Invoke(t, op, data) ==
    /\ At(t, "idle")
    /\ nops < MaxCalls
    /\ op = "Enqueue" \/ data = <<>>
    /\ nops' = nops + 1
    /\ threads' = [threads EXCEPT ![t] = [IdleThread EXCEPT !.pc = "lock",
                                                           !.op = op,
                                                           !.data = data]]
    /\ UNCHANGED <<file, block_size_, engine, mapped_blocks_, enqueued, returned,
                   last, clean, mutex_>>
    /\ UNCHANGED <<places, killed>>
    /\ HeaderKept

\* Lines 130, 187, 231, 238, 245.
Acquire(t, ub) ==
    /\ At(t, "lock")
    /\ LockAvailable(mutex_)
    /\ mutex_' = t
    /\ threads' = [threads EXCEPT ![t].pc = FirstStep(threads[t].op),
                                  ![t].ub = ub,
                                  ![t].pre = <<file, mapped_blocks_>>]
    /\ UNCHANGED <<file, block_size_, engine, mapped_blocks_, enqueued, returned,
                   last, clean, nops>>
    /\ UNCHANGED <<places, killed>>
    /\ HeaderKept

\* Enqueue lines 133-150.
EnqRoom(t) ==
    /\ At(t, "enq_room")
    /\ LET room == MakeRoom(file, block_size_, FrameSize(Len(threads[t].data)))
       IN  /\ file' = room.file
           /\ IF room.st = "crash"
              THEN Die(t)
              ELSE /\ threads' =
                        IF room.st = "full"
                        THEN [threads EXCEPT ![t].pc = "unlock", ![t].ret = "false"]
                        ELSE [threads EXCEPT ![t].pc = "enq_write"]
                   /\ UNCHANGED <<engine, mapped_blocks_, clean>>
    /\ UNCHANGED <<block_size_, enqueued, returned, last, nops, mutex_>>
    /\ UNCHANGED <<places, killed>>
    /\ HeaderKept

\* Enqueue lines 153-170.
EnqWrite(t) ==
    /\ At(t, "enq_write")
    /\ LET w == RecordWrite(file, mapped_blocks_, block_size_, threads[t].data,
                            threads[t].ub)
       IN  /\ file' = w.file
           /\ IF ~w.ok
              THEN Die(t)
              ELSE /\ mapped_blocks_' = w.mapped
                   /\ threads' = [threads EXCEPT ![t].pc = "enq_wpos",
                                                 ![t].over = w.ub,
                                                 ![t].at = WritePos(file)]
                   /\ UNCHANGED <<engine, clean>>
    /\ UNCHANGED <<block_size_, enqueued, returned, last, nops, mutex_>>
    /\ UNCHANGED <<places, killed>>
    /\ HeaderKept

\* Enqueue line 172.
EnqWritePos(t) ==
    /\ At(t, "enq_wpos")
    /\ IF Capacity(file) = 0
       THEN Die(t) /\ UNCHANGED file
       ELSE /\ file' = StoreWritePos(file, FrameSize(Len(threads[t].data)))
            /\ Goto(t, "enq_size")
            /\ UNCHANGED <<engine, mapped_blocks_, clean>>
    /\ UNCHANGED <<block_size_, enqueued, returned, last, nops, mutex_>>
    /\ UNCHANGED <<places, killed>>
    /\ HeaderKept

\* Enqueue line 173.
EnqSize(t) ==
    /\ At(t, "enq_size")
    /\ file' = AddSize(file, FrameSize(Len(threads[t].data)))
    /\ Goto(t, "enq_count")
    /\ UNCHANGED <<block_size_, engine, mapped_blocks_, enqueued, returned, last,
                   clean, nops, mutex_>>
    /\ UNCHANGED <<places, killed>>
    /\ HeaderKept

\* Enqueue lines 174-182.
EnqCount(t) ==
    /\ At(t, "enq_count")
    /\ file' = IncCount(file)
    /\ threads' = [threads EXCEPT ![t].pc = "unlock", ![t].ret = "true"]
    /\ UNCHANGED <<block_size_, engine, mapped_blocks_, enqueued, returned, last,
                   clean, nops, mutex_>>
    /\ UNCHANGED <<places, killed>>
    /\ HeaderKept

\* Dequeue lines 189-192.
DeqCheck(t) ==
    /\ At(t, "deq_check")
    /\ threads' = IF DequeueIsEmpty(file)
                  THEN [threads EXCEPT ![t].pc = "unlock", ![t].ret = "empty"]
                  ELSE [threads EXCEPT ![t].pc = "deq_read"]
    /\ UNCHANGED <<file, block_size_, engine, mapped_blocks_, enqueued, returned,
                   last, clean, nops, mutex_>>
    /\ UNCHANGED <<places, killed>>
    /\ HeaderKept

\* Dequeue lines 194-215.
DeqRead(t) ==
    /\ At(t, "deq_read")
    /\ LET r == RecordRead(file, mapped_blocks_, block_size_, threads[t].ub)
       IN  IF r.st = "crash"
           THEN Die(t)
           ELSE /\ mapped_blocks_' = r.mapped
                /\ threads' =
                     IF r.st = "throw"
                     THEN [threads EXCEPT ![t].pc = "unlock", ![t].ret = "throw",
                                          ![t].over = r.ub]
                     ELSE [threads EXCEPT ![t].pc = "deq_rpos", ![t].out = r.data,
                                          ![t].over = r.ub]
                /\ UNCHANGED <<engine, clean>>
    /\ UNCHANGED <<file, block_size_, enqueued, returned, last, nops, mutex_>>
    /\ UNCHANGED <<places, killed>>
    /\ HeaderKept

\* Dequeue line 217.
DeqReadPos(t) ==
    /\ At(t, "deq_rpos")
    /\ IF Capacity(file) = 0
       THEN Die(t) /\ UNCHANGED file
       ELSE /\ file' = StoreReadPos(file, FrameSize(Len(threads[t].out)))
            /\ Goto(t, "deq_size")
            /\ UNCHANGED <<engine, mapped_blocks_, clean>>
    /\ UNCHANGED <<block_size_, enqueued, returned, last, nops, mutex_>>
    /\ UNCHANGED <<places, killed>>
    /\ HeaderKept

\* Dequeue line 218.
DeqSize(t) ==
    /\ At(t, "deq_size")
    /\ file' = SubSize(file, FrameSize(Len(threads[t].out)))
    /\ Goto(t, "deq_count")
    /\ UNCHANGED <<block_size_, engine, mapped_blocks_, enqueued, returned, last,
                   clean, nops, mutex_>>
    /\ UNCHANGED <<places, killed>>
    /\ HeaderKept

\* Dequeue lines 219-227.
DeqCount(t) ==
    /\ At(t, "deq_count")
    /\ file' = DecCount(file)
    /\ threads' = [threads EXCEPT ![t].pc = "unlock", ![t].ret = "ok"]
    /\ UNCHANGED <<block_size_, engine, mapped_blocks_, enqueued, returned, last,
                   clean, nops, mutex_>>
    /\ UNCHANGED <<places, killed>>
    /\ HeaderKept

\* Size line 232, TotalBytes line 239, Empty line 246.
Read(t) ==
    /\ At(t, "read")
    /\ threads' = [threads EXCEPT
                     ![t].pc = "unlock",
                     ![t].ret = CASE threads[t].op = "Size" -> SizeRet(file)
                                  [] threads[t].op = "TotalBytes" -> TotalBytesRet(file)
                                  [] OTHER -> EmptyRet(file)]
    /\ UNCHANGED <<file, block_size_, engine, mapped_blocks_, enqueued, returned,
                   last, clean, nops, mutex_>>
    /\ UNCHANGED <<places, killed>>
    /\ HeaderKept

\* The call returned or threw without killing the process.
NormalReturn(th) ==
    CASE th.op = "Enqueue" -> th.ret \in {"true", "false"}
      [] th.op = "Dequeue" -> th.ret \in {"ok", "empty"}
      [] OTHER -> TRUE

\* ~scoped_lock on return (or on the throw of line 214): the mutex is
\* released and the caller has its result.
Release(t) ==
    /\ At(t, "unlock")
    /\ mutex_' = NoThread
    /\ LET th == threads[t]
       IN  /\ last' = Call(th.op, th.ret, th.data, th.out)
           /\ enqueued' = IF th.op = "Enqueue" /\ th.ret = "true"
                          THEN Append(enqueued, th.data) ELSE enqueued
           /\ returned' = IF th.op = "Dequeue" /\ th.ret = "ok"
                          THEN Append(returned, th.out) ELSE returned
           /\ places' = IF th.op = "Enqueue" /\ th.ret = "true"
                        THEN Append(places, th.at) ELSE places
           /\ clean' = (clean /\ NormalReturn(th) /\ ~th.over)
    /\ threads' = [threads EXCEPT ![t] = IdleThread]
    /\ UNCHANGED <<file, block_size_, engine, mapped_blocks_, nops>>
    /\ UNCHANGED killed
    /\ HeaderKept

NextMT ==
    \/ \E t \in Threads, op \in Ops, data \in Payloads : Invoke(t, op, data)
    \/ \E t \in Threads, ub \in UBOutcomes : Acquire(t, ub)
    \/ \E t \in Threads : EnqRoom(t)
    \/ \E t \in Threads : EnqWrite(t)
    \/ \E t \in Threads : EnqWritePos(t)
    \/ \E t \in Threads : EnqSize(t)
    \/ \E t \in Threads : EnqCount(t)
    \/ \E t \in Threads : DeqCheck(t)
    \/ \E t \in Threads : DeqRead(t)
    \/ \E t \in Threads : DeqReadPos(t)
    \/ \E t \in Threads : DeqSize(t)
    \/ \E t \in Threads : DeqCount(t)
    \/ \E t \in Threads : Read(t)
    \/ \E t \in Threads : Release(t)

SpecMT == Init /\ [][NextMT]_vars

\* ------------------------------------------------------ the process stopped
\* The process is stopped from outside while a thread is inside Enqueue or
\* Dequeue, between two of its steps.  The stores made so far through the
\* MAP_SHARED mappings are in the file (they are in the page cache whether or
\* not msync has run); the threads and the mutex are gone with the process.
\* A behaviour has one such stop.
Kill(t) ==
    /\ engine = "open"
    /\ killed = "none"
    /\ mutex_ = t
    /\ threads[t].pc \in Inside
    /\ threads[t].op \in {"Enqueue", "Dequeue"}
    /\ engine' = "crashed"
    /\ mapped_blocks_' = NoBlocks
    /\ mutex_' = NoThread
    /\ threads' = [u \in Threads |-> IdleThread]
    /\ killed' = threads[t].op
    /\ last' = Call("Kill", "ok", <<>>, <<>>)
    /\ UNCHANGED <<file, block_size_, enqueued, returned, clean, nops, places>>
    /\ HeaderKept

NextCrash ==
    \/ NextMT
    \/ \E t \in Threads : Kill(t)
    \/ \E bs \in BlockSizes, ub \in UBOutcomes : Reopen(bs, ub)

SpecCrash == Init /\ [][NextCrash]_vars

\* ------------------------------------------------- the file changed on disk
\* Between a clean close and the next construction something other than the
\* engine changes one byte of the file.

\* Amounts added (modulo 256) to the byte that is changed.
Deltas == {1}

\* Header fields whose change the constructor is to notice first.
IdentityFields == {OFF_magic, OFF_version, OFF_block_size}

\* Offsets of the payload and checksum bytes of the frame of n payload bytes
\* written at offset at: the first and last payload byte and the checksum.
FrameSpots(at, n) ==
    {at + LEN_BYTES + n} \cup
    (IF n = 0 THEN {} ELSE {at + LEN_BYTES, at + LEN_BYTES + n - 1})

Closed == engine = "closed" /\ last.op = "~Impl"

ChangeByte(off, delta, what) ==
    /\ off < Len(file)
    /\ file' = [file EXCEPT ![off + 1] = (@ + delta) % 256]
    /\ last' = Call(what, "ok", off, <<>>)
    /\ clean' = FALSE
    /\ UNCHANGED <<block_size_, engine, mapped_blocks_, enqueued, returned,
                   nops, mutex_, threads, places, killed>>
    /\ HeaderKept

\* One byte of the payload or the checksum of a live record is changed, after
\* a clean close of a queue that reports count > 0.
FlipRecordByte(delta) ==
    /\ Closed
    /\ clean
    /\ Count(file) > 0
    /\ \E k \in (Len(returned) + 1) .. Len(enqueued) :
         \E off \in FrameSpots(places[k], Len(enqueued[k])) :
            ChangeByte(off, delta, "FlipRecordByte")

\* One byte of the magic number, the version or the recorded block size is
\* changed.
FlipHeaderByte(off, delta) ==
    /\ Closed
    /\ off \in IdentityFields
    /\ ChangeByte(off, delta, "FlipHeaderByte")

NextTamper ==
    \/ \E data \in Payloads, ub \in UBOutcomes :
          nops < MaxTamperOps /\ Enqueue(data, ub)
    \/ \E ub \in UBOutcomes : nops < MaxTamperOps /\ Dequeue(ub)
    \/ Destroy
    \/ \E delta \in Deltas : FlipRecordByte(delta)
    \/ \E off \in IdentityFields, delta \in Deltas : FlipHeaderByte(off, delta)
    \/ \E bs \in BlockSizes, ub \in UBOutcomes : Reopen(bs, ub)

SpecTamper == Init /\ [][NextTamper]_vars

\* ------------------------------------------- the file changed while mapped
\* The blocks are mapped MAP_SHARED: a byte of the file changed by something
\* other than the engine is what the engine reads next.  One byte of the
\* payload or the checksum of a live record is changed while the engine is
\* open.
DamageRecord(delta) ==
    /\ engine = "open"
    /\ clean
    /\ Count(file) > 0
    /\ \E k \in (Len(returned) + 1) .. Len(enqueued) :
         \E off \in FrameSpots(places[k], Len(enqueued[k])) :
            ChangeByte(off, delta, "DamageRecord")

NextDamage ==
    \/ \E data \in Payloads, ub \in UBOutcomes :
          nops < MaxTamperOps /\ Enqueue(data, ub)
    \/ \E ub \in UBOutcomes : nops < MaxTamperOps /\ Dequeue(ub)
    \/ Size
    \/ \E delta \in Deltas : DamageRecord(delta)

SpecDamage == Init /\ [][NextDamage]_vars

\* ------------------------------------------------------- frames of any size
\* Enqueue takes a payload of any length.  Payloads of 13, 15 and 36 bytes:
\* frames of 18 and 20 bytes (one block of the smaller block sizes) and of 41
\* bytes (more than two blocks of 20).
GeomPayloads == {Rep(1, 13), Rep(1, 15), Rep(1, 36)}

NextGeom ==
    \/ \E data \in GeomPayloads, ub \in UBOutcomes : Enqueue(data, ub)
    \/ \E ub \in UBOutcomes : Dequeue(ub)

SpecGeom == Init /\ [][NextGeom]_vars

\* ------------------------------------------------------- the first opening
\* Before the first construction the path names no file or an empty one
\* (open with O_CREAT makes the two cases the same), and there is no engine.
InitNoFile ==
    /\ file = <<>>
    /\ block_size_ = 0
    /\ engine = "closed"
    /\ mapped_blocks_ = NoBlocks
    /\ enqueued = <<>>
    /\ returned = <<>>
    /\ last = Call("none", "ok", <<>>, <<>>)
    /\ clean = TRUE
    /\ nops = 0
    /\ mutex_ = NoThread
    /\ threads = [t \in Threads |-> IdleThread]
    /\ places = <<>>
    /\ killed = "none"
    /\ header_ = "none"

NextFresh ==
    \/ \E bs \in BlockSizes, ub \in UBOutcomes : Reopen(bs, ub)
    \/ \E data \in Payloads, ub \in UBOutcomes :
          nops < MaxTamperOps /\ Enqueue(data, ub)
    \/ \E ub \in UBOutcomes : nops < MaxTamperOps /\ Dequeue(ub)
    \/ Destroy

SpecFresh == InitNoFile /\ [][NextFresh]_vars

\* ------------------------------------------- one caller, step by step
\* One thread calls into the engine, each call taken one group of statements
\* at a time.
Caller == "t1"

InvokeSeq(op, data) ==
    /\ At(Caller, "idle")
    /\ nops < MaxSeqCalls
    /\ op = "Enqueue" \/ data = <<>>
    /\ nops' = nops + 1
    /\ threads' = [threads EXCEPT ![Caller] = [IdleThread EXCEPT !.pc = "lock",
                                                                !.op = op,
                                                                !.data = data]]
    /\ UNCHANGED <<file, block_size_, engine, mapped_blocks_, enqueued, returned,
                   last, clean, mutex_, places, killed>>
    /\ HeaderKept

NextSteps ==
    \/ \E op \in Ops, data \in Payloads : InvokeSeq(op, data)
    \/ \E ub \in UBOutcomes : Acquire(Caller, ub)
    \/ EnqRoom(Caller)
    \/ EnqWrite(Caller)
    \/ EnqWritePos(Caller)
    \/ EnqSize(Caller)
    \/ EnqCount(Caller)
    \/ DeqCheck(Caller)
    \/ DeqRead(Caller)
    \/ DeqReadPos(Caller)
    \/ DeqSize(Caller)
    \/ DeqCount(Caller)
    \/ Read(Caller)
    \/ Release(Caller)

SpecSteps == Init /\ [][NextSteps]_vars

\* The file offsets that FlushBlock(block_index) hands to msync: none for
\* block 0 (line 529) or through a null cache entry, else those of the block.
FlushedByFlushBlock(m, bs, block_index) ==
    IF block_index = 0 THEN {}
    ELSE IF block_index \notin DOMAIN m THEN {}
    ELSE IF m[block_index] # "mapped" THEN {}
    ELSE (block_index * bs) .. ((block_index + 1) * bs - 1)

\* ------------------------------------------------ payloads of any content
\* A payload of 15 bytes like HeaderImage whose byte at the place of
\* write_pos is 100, an offset in block 5 of a file of four blocks of 20.
FarImage == <<0, 0, 0, 0, 80, 0, 5, 20, 80, 100, 40, 190, 1, 0, 0>>

CachePayloads == {Rep(1, 15), FarImage}

NextCache ==
    \/ \E data \in CachePayloads, ub \in UBOutcomes : Enqueue(data, ub)
    \/ \E ub \in UBOutcomes : Dequeue(ub)

SpecCache == Init /\ [][NextCache]_vars

\* ------------------------------------------------- system calls that fail
\* ftruncate (ResizeFile) and mmap (MapBlock) can fail; each then throws
\* std::runtime_error out of Enqueue.  The system calls of an Enqueue that can
\* fail: the ftruncate of ExpandFile when the file is to grow, the mmap of
\* line 153 when the block of write_pos is not in the cache.
FailurePoints(f, m, bs, data) ==
    LET total_size == FrameSize(Len(data))
        room       == MakeRoom(f, bs, total_size)
    IN  (IF NeedsSpace(f, total_size) /\ Capacity(f) < MaxSize(f)
         THEN {"ftruncate"} ELSE {})
        \cup
        (IF room.st = "go" /\ (WritePos(room.file) \div bs) \notin DOMAIN m
         THEN {"mmap"} ELSE {})

\* Impl::Enqueue when the system call sys fails: [ret, file, mapped].  A
\* failed ftruncate throws before ExpandFile stores the capacity; a failed
\* mmap throws after the space check has run, with no cache entry added.
EnqueueCallFailing(f, m, bs, data, sys) ==
    IF sys = "ftruncate"
    THEN [ret |-> "throw", file |-> f, mapped |-> m]
    ELSE [ret |-> "throw",
          file |-> MakeRoom(f, bs, FrameSize(Len(data))).file,
          mapped |-> m]

EnqueueFails(data, sys) ==
    /\ engine = "open"
    /\ nops < MaxOps
    /\ sys \in FailurePoints(file, mapped_blocks_, block_size_, data)
    /\ LET r == EnqueueCallFailing(file, mapped_blocks_, block_size_, data, sys)
       IN  /\ file' = r.file
           /\ mapped_blocks_' = r.mapped
           /\ last' = Call("Enqueue", r.ret, data, sys)
    /\ clean' = FALSE
    /\ nops' = nops + 1
    /\ UNCHANGED <<block_size_, engine, enqueued, returned, mutex_, threads,
                   places, killed>>
    /\ HeaderKept

NextFail ==
    \/ \E data \in GeomPayloads, ub \in UBOutcomes : Enqueue(data, ub)
    \/ \E ub \in UBOutcomes : Dequeue(ub)
    \/ \E data \in GeomPayloads, sys \in {"ftruncate", "mmap"} :
          EnqueueFails(data, sys)

SpecFail == Init /\ [][NextFail]_vars

\* ------------------------------------------------------------------ claims
IsPrefix(s, t) == Len(s) <= Len(t) /\ \A i \in 1..Len(s) : s[i] = t[i]

\* This step is a call of Enqueue / Dequeue; last' holds its result.
EnqueueStep == nops' = nops + 1 /\ last'.op = "Enqueue"
DequeueStep == nops' = nops + 1 /\ last'.op = "Dequeue"

\* The engine is open and the last call was an Enqueue that returned true or a
\* Dequeue that returned a payload, in a run where every call returned
\* normally and no access left its block mapping.
AfterSuccess ==
    /\ clean
    /\ engine = "open"
    /\ \/ last.op = "Enqueue" /\ last.ret = "true"
       \/ last.op = "Dequeue" /\ last.ret = "ok"

\* C1: FIFO.  In a run of calls that all return normally, the payloads
\* returned by Dequeue are, in order, the payloads of the Enqueue calls that
\* returned true: the k-th returned payload is the k-th enqueued one.
C1_Fifo == clean => IsPrefix(returned, enqueued)

\* C2: persistence.  After calls that all returned normally, destroying the
\* engine and constructing one on the same file with the same block size
\* succeeds and reports the same count and bytes_used.
C2_ReopenRestores ==
    [][(clean /\ engine = "closed" /\ last'.op = "Impl" /\ last'.arg = block_size_)
         => /\ engine' = "open"
            /\ SizeRet(file') = SizeRet(file)
            /\ TotalBytesRet(file') = TotalBytesRet(file)]_vars

\* C3: count() == 0 iff empty() iff bytes_used() == 0, in every state reached
\* by calls that returned normally.
C3_EmptyIffNoBytes ==
    (clean /\ engine = "open")
        => /\ (SizeRet(file) = 0) <=> EmptyRet(file)
           /\ EmptyRet(file) <=> (TotalBytesRet(file) = 0)

\* C4: space accounting.  An Enqueue of n bytes that returns true adds
\* 4 + n + 1 to bytes_used() and 1 to count(); a Dequeue that returns n bytes
\* subtracts them; bytes_used() is the sum of the frames of the live records
\* and count() their number.
LiveRecords == SubSeq(enqueued, Len(returned) + 1, Len(enqueued))

RECURSIVE SumFrames(_)
SumFrames(s) == IF s = <<>> THEN 0 ELSE FrameSize(Len(Head(s))) + SumFrames(Tail(s))

C4_SpaceAccounting ==
    [][/\ (clean' /\ EnqueueStep /\ last'.ret = "true")
            => /\ TotalBytesRet(file') = TotalBytesRet(file) + FrameSize(Len(last'.arg))
               /\ SizeRet(file') = SizeRet(file) + 1
       /\ (clean' /\ DequeueStep /\ last'.ret = "ok")
            => /\ TotalBytesRet(file') = TotalBytesRet(file) - FrameSize(Len(last'.data))
               /\ SizeRet(file') = SizeRet(file) - 1
       /\ (clean' /\ engine' = "open" /\ Len(returned') <= Len(enqueued'))
            => /\ TotalBytesRet(file') = SumFrames(LiveRecords')
               /\ SizeRet(file') = Len(LiveRecords')]_vars

\* C5: Enqueue returns false iff the queue is full, and an Enqueue that
\* returns false leaves the file, header included, as it was.  Full: the
\* frame does not fit in the free usable space capacity - block_size - size
\* and capacity has reached max_size (NoRoom), and there is no reclaimable
\* region.  Where no record has been consumed nothing is reclaimable, so
\* there NoRoom must give false; and false is returned only with NoRoom.
NoRoom(f, bs, total_size) ==
    /\ QSize(f) + total_size > Capacity(f) - bs
    /\ Capacity(f) >= MaxSize(f)

C5_FalseIffFull ==
    [][(clean /\ EnqueueStep /\ last'.ret \in {"true", "false"})
         => LET noroom == NoRoom(file, block_size_, FrameSize(Len(last'.arg)))
            IN  /\ (noroom /\ returned = <<>>) => last'.ret = "false"
                /\ (last'.ret = "false") => noroom
                /\ (last'.ret = "false") => file' = file]_vars

\* C6: Dequeue returns the empty result iff count == 0, and then changes
\* nothing in the file; on a freshly created file count() == 0,
\* bytes_used() == 0, empty() is true and Dequeue returns empty.
C6_FreshFile ==
    /\ SizeRet(file) = 0
    /\ TotalBytesRet(file) = 0
    /\ EmptyRet(file)
    /\ \A ub \in UBOutcomes :
         DequeueCall(file, mapped_blocks_, block_size_, ub).ret = "empty"

C6_EmptyIffCountZero ==
    /\ C6_FreshFile
    /\ [][DequeueStep
            => /\ (last'.ret = "empty") <=> (SizeRet(file) = 0)
               /\ (last'.ret = "empty")
                    => (file' = file /\ returned' = returned)]_vars

\* A Dequeue has returned empty on a queue that has held records, all of
\* them since returned.
C6_Witness ==
    /\ last.op = "Dequeue" /\ last.ret = "empty"
    /\ Len(enqueued) > 0
    /\ Len(returned) = Len(enqueued)

\* C7: after an Enqueue that returned true or a Dequeue that returned a
\* payload, block_size <= read_pos < capacity and
\* block_size <= write_pos < capacity.
C7_PositionsInRange ==
    AfterSuccess
        => /\ block_size_ <= ReadPos(file) /\ ReadPos(file) < Capacity(file)
           /\ block_size_ <= WritePos(file) /\ WritePos(file) < Capacity(file)

\* C8: after an Enqueue that returned true or a Dequeue that returned a
\* payload, size <= capacity - block_size.
C8_SizeBound == AfterSuccess => QSize(file) <= Capacity(file) - block_size_

\* C9: capacity is a positive multiple of block_size, at most max_size, and
\* equal to the length of the backing file, for every configured block size.
C9_CapacityInvariant ==
    (clean /\ engine = "open")
        => /\ Capacity(file) > 0
           /\ Capacity(file) % block_size_ = 0
           /\ Capacity(file) <= MaxSize(file)
           /\ Capacity(file) = Len(file)

\* What the whole call of thread record th does, as one sequential step, to
\* the file and block cache it found when it passed the lock.
SeqResult(th, bs) ==
    LET f == th.pre[1]
        m == th.pre[2]
        same(v) == [ret |-> v, file |-> f, mapped |-> m, data |-> <<>>]
    IN  CASE th.op = "Enqueue" ->
               LET r == EnqueueCall(f, m, bs, th.data, th.ub)
               IN  [ret |-> r.ret, file |-> r.file, mapped |-> r.mapped,
                    data |-> <<>>]
          [] th.op = "Dequeue" ->
               LET r == DequeueCall(f, m, bs, th.ub)
               IN  [ret |-> r.ret, file |-> r.file, mapped |-> r.mapped,
                    data |-> r.data]
          [] th.op = "Size" -> same(SizeRet(f))
          [] th.op = "TotalBytes" -> same(TotalBytesRet(f))
          [] OTHER -> same(EmptyRet(f))

\* A thread between the lock and its release owns the mutex, so at most one
\* thread is there.
MutualExclusion ==
    \A t \in Threads : threads[t].pc \in Inside \cup {"dead"} => mutex_ = t

\* A call that has run its body (or has killed the process) has left the file
\* and the block cache, and has the result, of the whole call applied in one
\* step to the state it found when it passed the lock.
AtomicEffect ==
    \A t \in Threads :
        threads[t].pc \in {"unlock", "dead"}
            => LET s == SeqResult(threads[t], block_size_)
               IN  /\ file = s.file
                   /\ mapped_blocks_ = s.mapped
                   /\ threads[t].ret = s.ret
                   /\ threads[t].out = s.data

\* A step that changes the file or the block cache is a step of the thread
\* that owns the mutex, and of no other thread.
UnderMutex ==
    (file' # file \/ mapped_blocks_' # mapped_blocks_)
        => /\ mutex_ # NoThread
           /\ threads[mutex_].pc \in Inside
           /\ threads'[mutex_] # threads[mutex_]
           /\ \A u \in Threads \ {mutex_} : threads'[u] = threads[u]

\* C10: thread safety.  With several threads calling Enqueue, Dequeue, Size,
\* TotalBytes and Empty on one engine, every header and record access of a
\* call happens while the calling thread owns the mutex, only one thread at a
\* time is between lock and release, and every call has the effect and the
\* result of the whole call run alone on the state it found at the lock: the
\* execution is the sequential one in the order the lock was passed.
C10_Serialized ==
    /\ [](MutualExclusion /\ AtomicEffect)
    /\ [][UnderMutex]_vars

\* A Dequeue has run its whole body and holds the payload of an earlier
\* Enqueue while another thread, which called Size meanwhile, waits at the
\* lock.
C10_Witness ==
    \E t, u \in Threads :
        /\ t # u
        /\ threads[t].pc = "unlock" /\ threads[t].op = "Dequeue"
        /\ threads[t].ret = "ok" /\ threads[t].out \in Payloads
        /\ threads[u].pc = "lock" /\ threads[u].op = "Size"
        /\ mutex_ = t
        /\ enqueued # <<>>

\* A step that constructs an engine on an existing file; last'.arg is the
\* block size passed and last'.ret the outcome.
ReopenStep == engine # "open" /\ last'.op = "Impl" /\ Len(file) > 0

\* C15: records never touch the header region or run off the file: an
\* Enqueue that returns true has written its whole frame at offsets in
\* [block_size, capacity).
C15_RecordsInDataRegion ==
    [][(clean /\ EnqueueStep /\ last'.ret = "true")
         => LET total_size == FrameSize(Len(last'.arg))
                f1 == MakeRoom(file, block_size_, total_size).file
            IN  /\ block_size_ <= WritePos(f1)
                /\ WritePos(f1) + total_size <= Capacity(f1)]_vars

\* C18: no record straddles a block boundary: an Enqueue whose frame is larger
\* than block_size - (write_pos mod block_size) is rejected, writing nothing.
C18_NoStraddle ==
    [][(clean /\ EnqueueStep
          /\ FrameSize(Len(last'.arg))
               > block_size_ - (WritePos(file) % block_size_))
         => (last'.ret = "false" /\ file' = file)]_vars

\* The header fields of f break an invariant of the positions for block
\* size bs.
PositionInvariantBroken(f, bs) ==
    \/ ReadPos(f) < bs
    \/ WritePos(f) < bs
    \/ ReadPos(f) >= Capacity(f)
    \/ WritePos(f) >= Capacity(f)
    \/ QSize(f) > Capacity(f) - bs
    \/ Capacity(f) % bs # 0
    \/ Capacity(f) > MaxSize(f)
    \/ (Count(f) = 0) # (QSize(f) = 0)

\* The header of f carries the magic number, the version and block size bs.
IdentityValid(f, bs) ==
    /\ Len(f) >= HEADER_BYTES
    /\ Field(f, OFF_magic) = MAGIC_NUMBER
    /\ Field(f, OFF_version) = CURRENT_VERSION
    /\ Field(f, OFF_block_size) = bs

\* C20: constructing an engine on an existing file whose header has the
\* magic number, the version and the block size passed but breaks a position
\* invariant raises an error, and no engine is constructed.
C20_PositionsValidated ==
    [][(ReopenStep /\ IdentityValid(file, last'.arg)
          /\ PositionInvariantBroken(file, last'.arg))
         => (last'.ret = "throw" /\ engine' = "failed")]_vars

\* The records enqueued and not yet returned, as indices of enqueued.
LiveIndices == (Len(returned) + 1) .. Len(enqueued)

\* The file offsets [a, a + n) and [b, b + m) have a byte in common.
Overlap(a, n, b, m) == a < b + m /\ b < a + n

\* C16: live records are never overwritten: the frame an Enqueue writes
\* shares no byte with the frame of a record enqueued and not yet returned.
C16_LiveRecordsKept ==
    [][(clean /\ EnqueueStep /\ last'.ret = "true")
         => \A k \in LiveIndices :
              ~Overlap(WriteOffset(file, block_size_, last'.arg),
                       FrameSize(Len(last'.arg)),
                       places[k], FrameSize(Len(enqueued[k])))]_vars

\* C11: record corruption is detected on reopen: after a clean close with
\* count > 0 and the change of one byte of the payload or checksum of a live
\* record, constructing an engine with the same block size raises an error
\* and no engine is constructed.
C11_CorruptRecordRefused ==
    [][(ReopenStep /\ last.op = "FlipRecordByte" /\ last'.arg = block_size_)
         => (last'.ret = "throw" /\ engine' = "failed")]_vars

\* The header of f does not identify a queue of block size bs.
IdentityMismatch(f, bs) ==
    \/ FieldZ(f, OFF_magic) # MAGIC_NUMBER
    \/ FieldZ(f, OFF_version) # CURRENT_VERSION
    \/ FieldZ(f, OFF_block_size) # bs

\* C12: header identity is validated on reopen: constructing an engine on an
\* existing file whose magic number or version is wrong, or whose recorded
\* block size is not the one passed, raises an error whatever the records
\* hold (no read of a record decides the outcome), and no engine is
\* constructed.
C12_IdentityValidated ==
    [][(ReopenStep /\ IdentityMismatch(file, last'.arg))
         => /\ last'.ret = "throw"
            /\ engine' = "failed"
            /\ mapped_blocks_' = NoBlocks]_vars

\* A construction has been refused on a file whose magic number was changed
\* after a close.
C12_Witness ==
    /\ engine = "failed"
    /\ last.op = "Impl" /\ last.ret = "throw"
    /\ Len(file) >= HEADER_BYTES
    /\ Field(file, OFF_magic) # MAGIC_NUMBER
    /\ Field(file, OFF_version) = CURRENT_VERSION
    /\ Field(file, OFF_block_size) = last.arg
    /\ Count(file) > 0

\* C14: no silent repair: a construction that raises leaves the file as it
\* was, in length and in every byte.
C14_NoSilentRepair ==
    [][(ReopenStep /\ last'.ret = "throw") => file' = file]_vars

\* A construction has been refused by the verification of the records: the
\* header identifies the queue and passes the tests of the positions.
C14_Witness ==
    /\ engine = "failed"
    /\ last.op = "Impl" /\ last.ret = "throw"
    /\ IdentityValid(file, last.arg)
    /\ QSize(file) <= Capacity(file)
    /\ ReadPos(file) < Capacity(file) /\ WritePos(file) < Capacity(file)
    /\ Count(file) > 0

\* s is t with some elements left out.
RECURSIVE IsSubseq(_, _)
IsSubseq(s, t) ==
    IF s = <<>> THEN TRUE
    ELSE IF t = <<>> THEN FALSE
    ELSE IF Head(s) = Head(t) THEN IsSubseq(Tail(s), Tail(t))
    ELSE IsSubseq(s, Tail(t))

\* C13: strict integrity after a crash: after the process stopped inside a
\* call and the file was opened again, Dequeue returns only payloads that were
\* enqueued, in their order.  Stated for a stop inside Dequeue, where every
\* payload ever written came from an Enqueue that returned true, and with the
\* record of the interrupted Dequeue allowed to be lost: the payloads returned
\* are, in order, payloads enqueued.
C13_IntegrityAfterCrash ==
    (clean /\ killed = "Dequeue") => IsSubseq(returned, enqueued)

\* C17: reclamation is restricted to the empty queue: an Enqueue whose frame
\* does not fit while capacity has reached max_size and the queue holds at
\* least one record returns false and leaves read_pos as it was.
C17_ReclaimOnlyWhenEmpty ==
    [][(/\ clean
        /\ EnqueueStep
        /\ Count(file) > 0
        /\ NeedsSpace(file, FrameSize(Len(last'.arg)))
        /\ Capacity(file) >= MaxSize(file))
       => (last'.ret = "false" /\ ReadPos(file') = ReadPos(file))]_vars

\* C19: file growth rule: when an Enqueue grows the file, capacity was below
\* max_size, the new capacity is min(2 * capacity, max_size), is at least
\* capacity + block_size and is a multiple of block_size, the file has that
\* length, and growing changed no other header field and no byte of the data
\* region.
C19_GrowthRule ==
    [][(clean /\ EnqueueStep /\ Len(file') # Len(file))
       => LET g == ExpandFile(file).file
          IN  /\ Capacity(file) < MaxSize(file)
              /\ Capacity(g) = Min(2 * Capacity(file), MaxSize(file))
              /\ Capacity(g) >= Capacity(file) + block_size_
              /\ Capacity(g) % block_size_ = 0
              /\ Len(file') = Capacity(g)
              /\ ReadPos(g) = ReadPos(file) /\ WritePos(g) = WritePos(file)
              /\ QSize(g) = QSize(file) /\ Count(g) = Count(file)
              /\ \A i \in HEADER_BYTES + 1 .. Len(file) : g[i] = file[i]]_vars

\* A Dequeue call has just thrown "checksum mismatch" and the engine is as
\* that call left it.
DequeueThrew == engine = "open" /\ last.op = "Dequeue" /\ last.ret = "throw"

\* C21: a Dequeue whose record fails the checksum test throws and leaves the
\* file, and so read_pos, size and count, as they were; a Dequeue called again
\* on that file throws again (unless its reads run past a block mapping, where
\* the outcome is not defined) and Size() keeps counting the record.
C21_CorruptNotConsumed ==
    /\ [][(DequeueStep /\ last'.ret = "throw")
           => (/\ file' = file
               /\ ReadPos(file') = ReadPos(file)
               /\ QSize(file') = QSize(file)
               /\ Count(file') = Count(file)
               /\ engine' = "open")]_vars
    /\ [](DequeueThrew
           => /\ SizeRet(file) > 0
              /\ \A ub \in UBOutcomes :
                    LET r == DequeueCall(file, mapped_blocks_, block_size_, ub)
                    IN  (r.ret = "throw" /\ r.file = file) \/ r.ub)

\* A Dequeue has thrown on a record that lies inside one block, and a Dequeue
\* called now throws again.
C21_Witness ==
    /\ DequeueThrew
    /\ nops >= 2
    /\ \A ub \in UBOutcomes :
          LET r == DequeueCall(file, mapped_blocks_, block_size_, ub)
          IN  r.ret = "throw" /\ ~r.ub

\* C22: an Enqueue that throws because ftruncate or mmap failed leaves
\* read_pos, write_pos, size, count and capacity as they were before the call
\* (the header is the mapped file, so in memory and on disk alike).
C22_ThrowLeavesHeader ==
    [][(clean /\ EnqueueStep /\ last'.ret = "throw")
       => (/\ ReadPos(file') = ReadPos(file)
           /\ WritePos(file') = WritePos(file)
           /\ QSize(file') = QSize(file)
           /\ Count(file') = Count(file)
           /\ Capacity(file') = Capacity(file))]_vars

\* The thread is in Enqueue between the flush of line 170 and its return of
\* true.
PastFlush(t) ==
    /\ engine = "open"
    /\ threads[t].op = "Enqueue"
    /\ \/ threads[t].pc \in {"enq_wpos", "enq_size", "enq_count"}
       \/ threads[t].pc = "unlock" /\ threads[t].ret = "true"

FrameOffsets(at, n) == at .. (at + FrameSize(n) - 1)

\* C23: write ordering inside Enqueue: when write_pos, size or count is
\* changed, and until Enqueue returns true, every byte of the record's frame
\* has been written and has been flushed by the flush of the touched block.
\* Stated for frames that lie inside one block.
C23_RecordFlushedFirst ==
    \A t \in Threads :
       (PastFlush(t) /\ ~threads[t].over)
       => FrameOffsets(threads[t].at, Len(threads[t].data))
             \subseteq FlushedByFlushBlock(mapped_blocks_, block_size_,
                                           threads[t].at \div block_size_)

\* The constructor runs on a path with no file or an empty file.
FreshOpenStep == engine # "open" /\ Len(file) = 0 /\ last'.op = "Impl"

\* C24: fresh-file initialization: constructing on a missing or empty file
\* succeeds and leaves a header with the magic number, version 1, the
\* configured block size, size 0, count 0, write_pos = read_pos = head = tail
\* = block_size and capacity equal to the length of the new file, and at that
\* point no record byte has been written: the rest of the file is zero and no
\* data block is mapped.
C24_FreshFileHeader ==
    [][FreshOpenStep
       => LET bs == last'.arg
          IN  /\ last'.ret = "ok" /\ engine' = "open" /\ block_size_' = bs
              /\ Field(file', OFF_magic) = MAGIC_NUMBER
              /\ Field(file', OFF_version) = CURRENT_VERSION
              /\ Field(file', OFF_block_size) = bs
              /\ QSize(file') = 0 /\ Count(file') = 0
              /\ WritePos(file') = bs /\ ReadPos(file') = bs
              /\ DecodeU32(SubSeq(file', OFF_head + 1, OFF_head + RESERVED_BYTES)) = bs
              /\ DecodeU32(SubSeq(file', OFF_tail + 1, OFF_tail + RESERVED_BYTES)) = bs
              /\ Capacity(file') = Len(file') /\ Len(file') > 0
              /\ \A k \in (HEADER_BYTES + 1) .. Len(file') : file'[k] = 0
              /\ mapped_blocks_' = NoBlocks]_vars

\* An engine has been constructed on the empty file and is open.
C24_Witness ==
    /\ engine = "open" /\ last.op = "Impl" /\ last.ret = "ok"
    /\ nops = 0 /\ block_size_ \in BlockSizes
    /\ Capacity(file) = Len(file) /\ ReadPos(file) = block_size_

\* The oldest live record: the first payload enqueued and not yet returned.
OldestLive == enqueued[Len(returned) + 1]

\* C25: ring consistency: in every state reached by Enqueue and Dequeue from
\* a fresh file, (write_pos - read_pos) mod capacity = size mod capacity, and
\* while count > 0 the frame stored at read_pos is that of the oldest live
\* record.
C25_RingConsistent ==
    (clean /\ engine = "open")
    => /\ Capacity(file) > 0
       /\ (WritePos(file) - ReadPos(file)) % Capacity(file)
             = QSize(file) % Capacity(file)
       /\ Count(file) > 0
            => /\ Len(returned) < Len(enqueued)
               /\ ReadPos(file) + FrameSize(Len(OldestLive)) <= Len(file)
               /\ SubSeq(file, ReadPos(file) + 1,
                         ReadPos(file) + FrameSize(Len(OldestLive)))
                     = Frame(OldestLive)

\* C26: mapping lifecycle: a block is mapped by the first access to it and
\* stays mapped while the engine lives; once the destructor has run, every
\* mapping made during the engine's life, the block mappings and the header
\* mapping, has been released.
C26_MappingsReleased ==
    /\ [][(engine = "open" /\ engine' = "open")
           => \A b \in DOMAIN mapped_blocks_ :
                 mapped_blocks_[b] = "mapped"
                 => (b \in DOMAIN mapped_blocks_' /\ mapped_blocks_'[b] = "mapped")]_vars
    /\ [][(engine = "open" /\ last'.op = "~Impl")
           => (mapped_blocks_' = NoBlocks /\ header_' = "none")]_vars

\* C27: EnsureBlockMapped is idempotent and effective, and nothing else adds
\* a cache entry without a mapping: every entry of mapped_blocks_ is a real
\* mapping, and calling EnsureBlockMapped for any block leaves a real mapping
\* of that block in the cache and changes nothing when the block had an entry.
C27_CacheHoldsMappings ==
    engine = "open"
    => /\ \A b \in DOMAIN mapped_blocks_ : mapped_blocks_[b] = "mapped"
       /\ \A i \in (0 .. (Len(file) \div block_size_)) \cup DOMAIN mapped_blocks_ :
             LET m == EnsureBlockMapped(mapped_blocks_, i)
             IN  /\ i \in DOMAIN m /\ m[i] = "mapped"
                 /\ i \in DOMAIN mapped_blocks_ => m = mapped_blocks_

=============================================================================
